---- MODULE Spec2Model ----
(***************************************************************************)
(* The embedding-and-indexing pipeline of pinecone-doubtpucho:             *)
(*   - the bulk ingestion route  (src/src/app/api/migrate-to/route.js)     *)
(*   - the search route          (src/unnamed/part_000)                    *)
(* Each route is its own module with its own module-level `embedder`.      *)
(* A request is a JavaScript async function: it runs without interruption  *)
(* up to its next await, so one action below is one such run of code.      *)
(***************************************************************************)
EXTENDS Integers, Sequences, FiniteSets, TLC

(***************************************************************************)
(* Bounds of the model.                                                    *)
(***************************************************************************)
\* longest questions.json drawn from the full RecordPool
MaxDocs == 3
\* length of the questions.json files drawn from LongPool
MaxLongDocs == 5
\* most rejected promises (model load, model run, upsert, query) in a behaviour
MaxFailures == 2

(***************************************************************************)
(* Program constants.                                                      *)
(***************************************************************************)
MinCleanLength == 3
DefaultBatchSize == 50
SnippetLength == 500
PaceEvery == 5
DefaultTopK == 10

(***************************************************************************)
(* JavaScript values.  A text is a sequence of one-character strings.  A   *)
(* JSON value is a record: k is its kind, s its string content, n its      *)
(* number; "absent" is a field the object does not have (undefined).       *)
(***************************************************************************)
Absent == [k |-> "absent", s |-> <<>>, n |-> 0]
Null == [k |-> "null", s |-> <<>>, n |-> 0]
Str(t) == [k |-> "str", s |-> t, n |-> 0]
Num(m) == [k |-> "num", s |-> <<>>, n |-> m]
\* the object {$oid: t}
Oid(t) == [k |-> "oid", s |-> t, n |-> 0]

\* an optional number of a request body: {} when the key is missing
NoNumber == {}
Some(m) == {m}
ValueOf(o) == CHOOSE m \in o : TRUE

\* JavaScript truthiness
Truthy(v) ==
  CASE v.k = "absent" -> FALSE
    [] v.k = "null" -> FALSE
    [] v.k = "str" -> v.s # <<>>
    [] v.k = "num" -> v.n # 0
    [] OTHER -> TRUE

\* a || b
OrElse(a, b) == IF Truthy(a) THEN a ELSE b

Digit(d) == <<"0", "1", "2", "3", "4", "5", "6", "7", "8", "9">>[d + 1]

RECURSIVE Decimal(_)
Decimal(m) == IF m < 10 THEN <<Digit(m)>> ELSE Decimal(m \div 10) \o <<Digit(m % 10)>>

ObjectObject == <<"[", "o", "b", "j", "e", "c", "t", " ", "O", "b", "j", "e", "c", "t", "]">>

\* String(v) of a truthy value
String(v) ==
  CASE v.k = "str" -> v.s
    [] v.k = "num" -> Decimal(v.n)
    [] OTHER -> ObjectObject

(***************************************************************************)
(* getEmbedding's cleaning of the text.                                    *)
(***************************************************************************)
Whitespace == {" ", "\t", "\n"}

\* .replace(/<[^>]*>/g, ""): a "<" with a ">" somewhere after it is removed
\* together with everything up to the first such ">"
RECURSIVE StripFrom(_, _)
StripFrom(t, p) ==
  IF p > Len(t) THEN <<>>
  ELSE IF t[p] = "<" /\ \E q \in (p + 1)..Len(t) : t[q] = ">"
       THEN LET close == CHOOSE q \in (p + 1)..Len(t) :
                           /\ t[q] = ">"
                           /\ \A u \in (p + 1)..(q - 1) : t[u] # ">"
            IN StripFrom(t, close + 1)
       ELSE <<t[p]>> \o StripFrom(t, p + 1)

StripTags(t) == StripFrom(t, 1)

\* .replace(/\s+/g, " "): every run of whitespace becomes one space
RECURSIVE CollapseFrom(_, _)
CollapseFrom(t, p) ==
  IF p > Len(t) THEN <<>>
  ELSE IF t[p] \in Whitespace
       THEN IF p > 1 /\ t[p - 1] \in Whitespace
            THEN CollapseFrom(t, p + 1)
            ELSE <<" ">> \o CollapseFrom(t, p + 1)
       ELSE <<t[p]>> \o CollapseFrom(t, p + 1)

CollapseWhitespace(t) == CollapseFrom(t, 1)

\* .trim()
Trim(t) ==
  LET solid == {p \in 1..Len(t) : t[p] \notin Whitespace}
  IN IF solid = {} THEN <<>>
     ELSE SubSeq(t, CHOOSE p \in solid : \A q \in solid : p <= q,
                    CHOOSE p \in solid : \A q \in solid : p >= q)

CleanText(t) == Trim(CollapseWhitespace(StripTags(t)))

\* the guard, were it to refuse the empty text only
TooShortEmptyOnly(t) == CleanText(t) = <<>>

\* the guard of "Text too short after cleaning"
TooShort(t) == CleanText(t) = <<>> \/ Len(CleanText(t)) < MinCleanLength

\* .substring(0, n)
Substring(t, m) == SubSeq(t, 1, IF Len(t) < m THEN Len(t) ELSE m)


(***************************************************************************)
(* The documents of questions.json.                                        *)
(***************************************************************************)
Doc(oid, id, cleaned, raw, subj) ==
  [_id |-> oid, id |-> id, cleanedQuestion |-> cleaned, question |-> raw,
   subject |-> subj, topic |-> Absent, course |-> Absent]

WhatIs == <<"W", "h", "a", "t", " ", "i", "s", " ", "2", "+", "2", "?">>

\* {id:"1", question:"What is 2+2?"} and {id:"2", question:"x"}
Example1 == Doc(Absent, Str(<<"1">>), Absent, Str(WhatIs), Absent)
Example2 == Doc(Absent, Str(<<"2">>), Absent, Str(<<"x">>), Absent)
\* {question:"What is 2+2?"}: neither id field
NoIdDoc == Doc(Absent, Absent, Absent, Str(WhatIs), Absent)
\* {id:null, question:"What is 2+2?"}
NullIdDoc == Doc(Absent, Null, Absent, Str(WhatIs), Absent)
\* {_id:{$oid:"a1"}, id:1, cleanedQuestion:"<p>a  b</p>", question:"x", subject:"Math"}
OidDoc ==
  Doc(Oid(<<"a", "1">>), Num(1), Str(<<"<", "p", ">", "a", " ", " ", "b", "<", "/", "p", ">">>),
      Str(<<"x">>), Str(<<"M", "a", "t", "h">>))
\* {_id:2, cleanedQuestion:""}: an id and no text
NoTextDoc == Doc(Num(2), Absent, Str(<<>>), Absent, Absent)

RecordPool == {Example1, Example2, NoIdDoc, NullIdDoc, OidDoc, NoTextDoc}
LongPool == {Example1, Example2}

SeqsOfLength(S, m) == [1..m -> S]
SeqsUpTo(S, m) == UNION {SeqsOfLength(S, l) : l \in 0..m}

\* what reading and parsing questions.json gives
ArrayOf(docs) == [k |-> "array", docs |-> docs]
Sources ==
  {ArrayOf(d) : d \in SeqsUpTo(RecordPool, MaxDocs) \cup SeqsOfLength(LongPool, MaxLongDocs)}
    \cup {[k |-> "nofile", docs |-> <<>>], [k |-> "object", docs |-> <<>>]}

BatchSizes == {NoNumber, Some(1), Some(2), Some(10)}
Limits == {NoNumber, Some(0), Some(2)}

(***************************************************************************)
(* lines 100-125 of route.js: the id and the text of a document            *)
(***************************************************************************)
HasId(doc) == Truthy(doc._id) \/ Truthy(doc.id)

DocId(doc) ==
  IF Truthy(doc._id) /\ doc._id.k = "oid" /\ doc._id.s # <<>> THEN doc._id.s
  ELSE IF Truthy(doc._id) THEN String(doc._id)
  ELSE String(doc.id)

\* JSON.stringify(doc._id || doc.id) is undefined, and .substring of it a
\* TypeError, when the value is undefined
WarnThrows(doc) == OrElse(doc._id, doc.id).k = "absent"

TextForEmbedding(doc) == OrElse(doc.cleanedQuestion, doc.question)

\* getEmbedding(text) throws before it reaches the model: text.replace is
\* not a function, or the text is too short after cleaning
Rejects(text) == text.k # "str" \/ TooShort(text.s)

\* the model's output for a clean text (mean pooling, normalised)
Embed(t) == [pooling |-> "mean", normalize |-> TRUE, text |-> t]

Unknown == Str(<<"u", "n", "k", "n", "o", "w", "n">>)

Metadata(doc) ==
  [subject |-> OrElse(doc.subject, Unknown),
   topic |-> OrElse(doc.topic, Unknown),
   course |-> OrElse(doc.course, Unknown),
   cleanedQuestion |-> Substring(StripTags(TextForEmbedding(doc).s), SnippetLength)]

\* src is the position of the document in questions: it is not a field of
\* the program's vector, it names the document the vector was made from
Vector(doc, at) ==
  [src |-> at, id |-> DocId(doc), values |-> Embed(CleanText(TextForEmbedding(doc).s)),
   metadata |-> Metadata(doc)]

\* questions.slice(0, limit) for limit >= 0
Slice(docs, m) == SubSeq(docs, 1, IF Len(docs) < m THEN Len(docs) ELSE m)

(***************************************************************************)
(* The search route (part_000): request bodies, the filter, the store's    *)
(* answers.                                                                *)
(***************************************************************************)
Math == <<"M", "a", "t", "h">>

Body(query, subject, topic, course, topK) ==
  [query |-> query, subject |-> subject, topic |-> topic, course |-> course, topK |-> topK]

\* missing, null, "", " \t", "<b>" (nothing left once cleaned), "What is 2+2?"
Queries ==
  {Absent, Null, Str(<<>>), Str(<<" ", "\t">>), Str(<<"<", "b", ">">>), Str(WhatIs)}
FilterValues == {Absent, Str(<<>>), Str(Math)}
TopKs == {NoNumber, Some(3)}

Bodies ==
  {Body(q, s, t, c, k) : q \in Queries, s \in FilterValues, t \in FilterValues,
                         c \in FilterValues, k \in TopKs}
FewBodies == {Body(Str(WhatIs), Absent, Absent, Absent, NoNumber),
              Body(Str(WhatIs), Str(Math), Absent, Absent, NoNumber)}

\* a JavaScript object is a function from its keys; {} is the empty one
EmptyObject == <<>>
Undefined == [k |-> "undefined", fields |-> EmptyObject]
Object(f) == [k |-> "object", fields |-> f]

\* filter.key = v
Assign(f, key, v) == [x \in DOMAIN f \cup {key} |-> IF x = key THEN v ELSE f[x]]

\* lines 52-55 of part_000
BuildFilter(body) ==
  LET f1 == IF Truthy(body.subject) THEN Assign(EmptyObject, "subject", body.subject)
            ELSE EmptyObject
      f2 == IF Truthy(body.topic) THEN Assign(f1, "topic", body.topic) ELSE f1
  IN IF Truthy(body.course) THEN Assign(f2, "course", body.course) ELSE f2

\* the filter argument, were the filter object passed as it is
QueryFilterAlways(f) == Object(f)

\* line 60: Object.keys(filter).length > 0 ? filter : undefined
QueryFilter(f) == IF Cardinality(DOMAIN f) > 0 THEN Object(f) ELSE Undefined

\* the filters of the response, were they the argument given to index.query
ResponseFiltersQueried(f) == IF Cardinality(DOMAIN f) > 0 THEN Object(f) ELSE Undefined

\* line 72: filters: filter
ResponseFilters(f) == Object(f)

\* the check of the query, were it written without the trim
QueryMissingNoTrim(query) == ~Truthy(query)

\* line 37: !query || query.trim().length === 0, for a query that is a
\* string or no value
QueryMissing(query) == ~Truthy(query) \/ Len(Trim(query.s)) = 0

Match(id, score) == [id |-> id, score |-> score]
\* what the store may answer
MatchLists ==
  {<<>>, <<Match("a1", 9)>>, <<Match("2", 8), Match("a1", 5)>>, <<Match("a1", 5), Match("2", 8)>>}

(***************************************************************************)
(* The vector store: index.upsert keeps one record under each id, the last *)
(* one written (spec.md section 6; the store itself is Pinecone's).        *)
(***************************************************************************)
EmptyStore == <<>>

\* what the store keeps of a vector
Stored(vector) == [values |-> vector.values, metadata |-> vector.metadata]

Put(st, vector) ==
  [id \in DOMAIN st \cup {vector.id} |-> IF id = vector.id THEN Stored(vector) ELSE st[id]]

\* index.upsert(vectors) on store st: the vectors are written in order
RECURSIVE UpsertInto(_, _)
UpsertInto(st, vectors) ==
  IF vectors = <<>> THEN st
  ELSE UpsertInto(Put(st, Head(vectors)), Tail(vectors))

\* a rejected upsert may have written any number of the first vectors
PartlyUpserted(st, vectors) == {UpsertInto(st, SubSeq(vectors, 1, n)) : n \in 0..Len(vectors)}

(***************************************************************************)
(* State.                                                                  *)
(***************************************************************************)
MigrateReqs == {"m1"}
SearchReqs == {"s1", "s2"}
Requests == MigrateReqs \cup SearchReqs
ModuleOf(r) == IF r \in MigrateReqs THEN "migrate" ELSE "search"
Modules == {"migrate", "search"}

VARIABLES
  pc,             \* where each request is
  response,       \* the response each request returned
  embedder,       \* the module-level embedder of each route: 0 is null
  got,            \* the embedder initEmbedder returned to each request
  loads,          \* number of pipeline() calls made so far
  failures,       \* number of rejected promises so far
  source,         \* body of the migrate request: what questions.json holds
  batchSizeIn,    \*   its batchSize
  limitIn,        \*   its limit
  questions, batchSize, i, batch, processedCount, errorCount, skippedCount,
  embedCalls,     \* the getEmbedding calls made: <<request, position of the document>>
  upsertCalls,    \* the index.upsert calls made, in order
  searchBody,     \* body of each search request
  queryCalls,     \* the index.query calls each search request made, in order
  store,          \* the index "cat-questions": the record kept under each id
  run,            \* 1 while the migrate request is sent for the first time
  firstStore      \* the store as the first migrate run left it

inputs == <<source, batchSizeIn, limitIn, searchBody>>
migrateVars == <<questions, batchSize, i, batch, processedCount, errorCount, skippedCount>>
history == <<embedCalls, upsertCalls, queryCalls>>
shared == <<embedder, loads, failures>>
again == <<run, firstStore>>
vars == <<pc, response, got, shared, inputs, migrateVars, history, store, again>>

NoResponse == [status |-> 0]
Error500(msg) == [status |-> 500, success |-> FALSE, error |-> msg]

InitCommon ==
  /\ response = [r \in Requests |-> NoResponse]
  /\ embedder = [m \in Modules |-> 0]
  /\ got = [r \in Requests |-> 0]
  /\ loads = 0
  /\ failures = 0
  /\ questions = <<>>
  /\ batchSize = 0
  /\ i = 0
  /\ batch = <<>>
  /\ processedCount = 0
  /\ errorCount = 0
  /\ skippedCount = 0
  /\ embedCalls = {}
  /\ upsertCalls = <<>>
  /\ queryCalls = [r \in SearchReqs |-> <<>>]
  /\ store = EmptyStore
  /\ run = 1
  /\ firstStore = EmptyStore

Goto(r, where) == pc' = [pc EXCEPT ![r] = where]
Respond(r, what) == response' = [response EXCEPT ![r] = what] /\ Goto(r, "done")
MayFail == failures < MaxFailures

(***************************************************************************)
(* The migrate route.                                                      *)
(***************************************************************************)
\* lines 36-97: read the body and questions.json, apply the limit
MigrateStart(r) ==
  /\ r \in MigrateReqs
  /\ pc[r] = "start"
  /\ IF source.k = "nofile"
       THEN Respond(r, Error500("No JSON file found")) /\ UNCHANGED migrateVars
     ELSE IF source.k # "array"
       THEN Respond(r, Error500("JSON data must be an array of questions"))
            /\ UNCHANGED migrateVars
     ELSE /\ questions' = IF limitIn # NoNumber /\ ValueOf(limitIn) # 0
                            THEN Slice(source.docs, ValueOf(limitIn))
                            ELSE source.docs
          /\ batchSize' = IF batchSizeIn = NoNumber THEN DefaultBatchSize
                          ELSE ValueOf(batchSizeIn)
          /\ i' = 1
          /\ batch' = <<>>
          /\ processedCount' = 0
          /\ errorCount' = 0
          /\ skippedCount' = 0
          /\ Goto(r, "loop")
          /\ UNCHANGED response
  /\ UNCHANGED <<got, shared, inputs, store, again, history>>

\* `continue`: on to the next document
Continue(r) == i' = i + 1 /\ Goto(r, "loop")

\* the catch of the loop body, were it to count the document as skipped
CatchAsSkipped(r) ==
  /\ skippedCount' = skippedCount + 1
  /\ Continue(r)
  /\ UNCHANGED <<questions, batchSize, batch, processedCount, errorCount, response>>

\* lines 168-177: the catch of the loop body
CatchInLoop(r) ==
  /\ errorCount' = errorCount + 1
  /\ Continue(r)
  /\ UNCHANGED <<questions, batchSize, batch, processedCount, skippedCount, response>>

\* an error thrown while request r is embedding: the per-document catch of
\* the migrate route (lines 168-177), the catch of the search route (74-83)
Throw(r, msg) ==
  IF r \in MigrateReqs THEN CatchInLoop(r)
  ELSE Respond(r, Error500(msg)) /\ UNCHANGED migrateVars

AtDoc(r) == r \in MigrateReqs /\ pc[r] = "loop" /\ i <= Len(questions)

\* lines 109-116: no id, the warning is written, the document is skipped
SkipNoId(r) ==
  /\ AtDoc(r)
  /\ ~HasId(questions[i])
  /\ IF WarnThrows(questions[i])
       THEN CatchInLoop(r)
       ELSE /\ skippedCount' = skippedCount + 1
            /\ Continue(r)
            /\ UNCHANGED <<questions, batchSize, batch, processedCount, errorCount, response>>
  /\ UNCHANGED <<got, shared, inputs, store, again, history>>

\* lines 119-125: no text
SkipNoText(r) ==
  /\ AtDoc(r)
  /\ HasId(questions[i])
  /\ ~Truthy(TextForEmbedding(questions[i]))
  /\ skippedCount' = skippedCount + 1
  /\ Continue(r)
  /\ UNCHANGED <<questions, batchSize, batch, processedCount, errorCount, response>>
  /\ UNCHANGED <<got, shared, inputs, store, again, history>>

\* initEmbedder up to its await: start a load when the embedder is null
EnterInitEmbedder(r) ==
  IF embedder[ModuleOf(r)] = 0
    THEN loads' = loads + 1 /\ Goto(r, "loading") /\ UNCHANGED <<embedder, got, failures>>
    ELSE /\ got' = [got EXCEPT ![r] = embedder[ModuleOf(r)]]
         /\ Goto(r, "model")
         /\ UNCHANGED shared

\* line 128 and getEmbedding up to its first await
EmbedDoc(r) ==
  /\ AtDoc(r)
  /\ HasId(questions[i])
  /\ Truthy(TextForEmbedding(questions[i]))
  /\ embedCalls' = embedCalls \cup {<<r, i>>}
  /\ IF Rejects(TextForEmbedding(questions[i]))
       THEN CatchInLoop(r) /\ UNCHANGED <<got, shared>>
       ELSE EnterInitEmbedder(r) /\ UNCHANGED <<migrateVars, response>>
  /\ UNCHANGED <<inputs, store, again, upsertCalls, queryCalls>>

\* line 15: pipeline() resolves; the new instance is assigned to the module's
\* embedder and returned to the caller
LoadReturns(r) ==
  /\ pc[r] = "loading"
  /\ embedder' = [embedder EXCEPT ![ModuleOf(r)] = loads]
  /\ got' = [got EXCEPT ![r] = loads]
  /\ Goto(r, "model")
  /\ UNCHANGED <<response, loads, failures, inputs, store, again, migrateVars, history>>

\* line 15: pipeline() rejects; the embedder stays null
LoadFails(r) ==
  /\ pc[r] = "loading"
  /\ MayFail
  /\ failures' = failures + 1
  /\ Throw(r, "load failed")
  /\ UNCHANGED <<embedder, got, loads, inputs, store, again, history>>

\* line 31: the model rejects
ModelFails(r) ==
  /\ pc[r] = "model"
  /\ MayFail
  /\ failures' = failures + 1
  /\ Throw(r, "model failed")
  /\ UNCHANGED <<embedder, got, loads, inputs, store, again, history>>

\* lines 164-167: the pause after every fifth processed document
AfterFlush(r, processed) ==
  IF processed % PaceEvery = 0 THEN Goto(r, "pace") /\ UNCHANGED i ELSE Continue(r)

UpsertCall(where, vectors) == [at |-> where, vectors |-> vectors, result |-> "pending"]
Settle(calls, how) == [calls EXCEPT ![Len(calls)].result = how]

\* a variant that names each vector after the run that made it, not only after
\* its document
MigrateEmbeddedStamped(r) ==
  /\ r \in MigrateReqs
  /\ pc[r] = "model"
  /\ batch' = Append(batch, [Vector(questions[i], i) EXCEPT !.id = @ \o Decimal(run)])
  /\ processedCount' = processedCount + 1
  /\ IF Len(batch') >= batchSize
       THEN /\ upsertCalls' = Append(upsertCalls, UpsertCall("loop", batch'))
            /\ Goto(r, "upsert")
            /\ UNCHANGED i
       ELSE AfterFlush(r, processedCount') /\ UNCHANGED upsertCalls
  /\ UNCHANGED <<response, got, shared, inputs, store, again, questions, batchSize, errorCount,
                 skippedCount, embedCalls, queryCalls>>

\* lines 31 and 128-167: the model returns; the vector is pushed and counted
MigrateEmbedded(r) ==
  /\ r \in MigrateReqs
  /\ pc[r] = "model"
  /\ batch' = Append(batch, Vector(questions[i], i))
  /\ processedCount' = processedCount + 1
  /\ IF Len(batch') >= batchSize
       THEN /\ upsertCalls' = Append(upsertCalls, UpsertCall("loop", batch'))
            /\ Goto(r, "upsert")
            /\ UNCHANGED i
       ELSE AfterFlush(r, processedCount') /\ UNCHANGED upsertCalls
  /\ UNCHANGED <<response, got, shared, inputs, store, again, questions, batchSize, errorCount,
                 skippedCount, embedCalls, queryCalls>>

\* lines 154-158: the upsert of the loop resolves; the batch is emptied
UpsertReturns(r) ==
  /\ pc[r] = "upsert"
  /\ upsertCalls' = Settle(upsertCalls, "ok")
  /\ store' = UpsertInto(store, batch)
  /\ batch' = <<>>
  /\ Goto(r, "delay")
  /\ UNCHANGED <<response, got, shared, inputs, again, questions, batchSize, i, processedCount,
                 errorCount, skippedCount, embedCalls, queryCalls>>

\* line 154: the upsert of the loop rejects, inside the try of the loop body
UpsertFails(r) ==
  /\ pc[r] = "upsert"
  /\ MayFail
  /\ failures' = failures + 1
  /\ upsertCalls' = Settle(upsertCalls, "failed")
  /\ store' \in PartlyUpserted(store, batch)
  /\ CatchInLoop(r)
  /\ UNCHANGED <<got, embedder, loads, inputs, again, embedCalls, queryCalls>>

\* a variant that calls the upsert again when the one-second pause is over
DelayOverRetries(r) ==
  /\ pc[r] = "delay"
  /\ Goto(r, "upsert")
  /\ UNCHANGED <<response, got, shared, inputs, store, again, migrateVars, history>>

\* line 161: the one-second pause after a flush is over
DelayOver(r) ==
  /\ pc[r] = "delay"
  /\ AfterFlush(r, processedCount)
  /\ UNCHANGED <<response, got, shared, inputs, store, again, questions, batchSize, batch,
                 processedCount, errorCount, skippedCount, history>>

\* line 166: the 200 ms pause is over
PaceOver(r) ==
  /\ pc[r] = "pace"
  /\ Continue(r)
  /\ UNCHANGED <<response, got, shared, inputs, store, again, questions, batchSize, batch,
                 processedCount, errorCount, skippedCount, history>>

\* lines 188-198
Stats ==
  [totalDocuments |-> Len(questions), totalProcessed |-> processedCount,
   errors |-> errorCount, skipped |-> skippedCount, finalBatchSize |-> Len(batch)]

Success == [status |-> 200, success |-> TRUE, stats |-> Stats]

\* a variant that answers as soon as the loop is over, without the upsert of
\* the remainder
LoopOverNoRemainder(r) ==
  /\ r \in MigrateReqs
  /\ pc[r] = "loop"
  /\ i > Len(questions)
  /\ Respond(r, Success)
  /\ UNCHANGED <<got, shared, inputs, store, again, migrateVars, history>>

\* lines 180-198: the loop is over
LoopOver(r) ==
  /\ r \in MigrateReqs
  /\ pc[r] = "loop"
  /\ i > Len(questions)
  /\ IF Len(batch) > 0
       THEN /\ upsertCalls' = Append(upsertCalls, UpsertCall("final", batch))
            /\ Goto(r, "final")
            /\ UNCHANGED response
       ELSE Respond(r, Success) /\ UNCHANGED upsertCalls
  /\ UNCHANGED <<got, shared, inputs, store, again, migrateVars, embedCalls, queryCalls>>

\* lines 182-198: the last upsert resolves
FinalReturns(r) ==
  /\ pc[r] = "final"
  /\ upsertCalls' = Settle(upsertCalls, "ok")
  /\ store' = UpsertInto(store, batch)
  /\ Respond(r, Success)
  /\ UNCHANGED <<got, shared, inputs, again, migrateVars, embedCalls, queryCalls>>

\* lines 182 and 199-208: the last upsert rejects
FinalFails(r) ==
  /\ pc[r] = "final"
  /\ MayFail
  /\ failures' = failures + 1
  /\ upsertCalls' = Settle(upsertCalls, "failed")
  /\ store' \in PartlyUpserted(store, batch)
  /\ Respond(r, Error500("upsert failed"))
  /\ UNCHANGED <<got, embedder, loads, inputs, again, migrateVars, embedCalls, queryCalls>>

Migrate(r) ==
  \/ MigrateStart(r)
  \/ SkipNoId(r)
  \/ SkipNoText(r)
  \/ EmbedDoc(r)
  \/ LoadReturns(r)
  \/ LoadFails(r)
  \/ ModelFails(r)
  \/ MigrateEmbedded(r)
  \/ UpsertReturns(r)
  \/ UpsertFails(r)
  \/ DelayOver(r)
  \/ PaceOver(r)
  \/ LoopOver(r)
  \/ FinalReturns(r)
  \/ FinalFails(r)

(***************************************************************************)
(* The search route.                                                       *)
(***************************************************************************)
\* lines 35-42 of part_000, and getEmbedding up to its first await
SearchStart(r) ==
  /\ r \in SearchReqs
  /\ pc[r] = "start"
  /\ IF QueryMissing(searchBody[r].query)
       THEN /\ Respond(r, [status |-> 400, error |-> "Query is required"])
            /\ UNCHANGED <<got, shared, embedCalls>>
       ELSE /\ embedCalls' = embedCalls \cup {<<r, 0>>}
            /\ IF Rejects(searchBody[r].query)
                 THEN /\ Respond(r, Error500("Text too short after cleaning"))
                      /\ UNCHANGED <<got, shared>>
                 ELSE EnterInitEmbedder(r) /\ UNCHANGED response
  /\ UNCHANGED <<inputs, store, again, migrateVars, upsertCalls, queryCalls>>

\* lines 57-62: the arguments of index.query
QueryCall(body) ==
  [vector |-> Embed(CleanText(body.query.s)),
   topK |-> IF body.topK = NoNumber THEN DefaultTopK ELSE ValueOf(body.topK),
   filter |-> QueryFilter(BuildFilter(body)),
   includeMetadata |-> TRUE,
   result |-> "pending",
   matches |-> <<>>]

\* lines 29-62: the model returns; the filter is built and the store queried
SearchEmbedded(r) ==
  /\ r \in SearchReqs
  /\ pc[r] = "model"
  /\ queryCalls' = [queryCalls EXCEPT ![r] = Append(@, QueryCall(searchBody[r]))]
  /\ Goto(r, "query")
  /\ UNCHANGED <<response, got, shared, inputs, store, again, migrateVars, embedCalls, upsertCalls>>

\* lines 67-73
SearchResponse(body, matches) ==
  [status |-> 200, success |-> TRUE, matches |-> matches, total |-> Len(matches),
   searchQuery |-> body.query.s, filters |-> ResponseFilters(BuildFilter(body))]

\* lines 57-73: the store answers
QueryReturns(r) ==
  /\ pc[r] = "query"
  /\ \E matches \in MatchLists :
       /\ queryCalls' = [queryCalls EXCEPT ![r] =
                           [@ EXCEPT ![Len(@)].result = "ok", ![Len(@)].matches = matches]]
       /\ Respond(r, SearchResponse(searchBody[r], matches))
  /\ UNCHANGED <<got, shared, inputs, store, again, migrateVars, embedCalls, upsertCalls>>

\* lines 57 and 74-83: the query rejects
QueryFails(r) ==
  /\ pc[r] = "query"
  /\ MayFail
  /\ failures' = failures + 1
  /\ queryCalls' = [queryCalls EXCEPT ![r] = [@ EXCEPT ![Len(@)].result = "failed"]]
  /\ Respond(r, Error500("query failed"))
  /\ UNCHANGED <<got, embedder, loads, inputs, store, again, migrateVars, embedCalls, upsertCalls>>

Search(r) ==
  \/ SearchStart(r)
  \/ LoadReturns(r)
  \/ LoadFails(r)
  \/ ModelFails(r)
  \/ SearchEmbedded(r)
  \/ QueryReturns(r)
  \/ QueryFails(r)

(***************************************************************************)
(* Specifications.                                                         *)
(*   Spec         one migrate request, over every questions.json           *)
(*   SpecSearch   two search requests running together                     *)
(*   SpecProcess  a migrate request and a search request in one process    *)
(***************************************************************************)
IdleBody == Body(Absent, Absent, Absent, Absent, NoNumber)
IdleSource == ArrayOf(<<>>)

Init ==
  /\ InitCommon
  /\ pc = [r \in Requests |-> IF r \in MigrateReqs THEN "start" ELSE "off"]
  /\ source \in Sources
  /\ batchSizeIn \in BatchSizes
  /\ limitIn \in Limits
  /\ searchBody = [r \in SearchReqs |-> IdleBody]

Next == \E r \in MigrateReqs : Migrate(r)

Spec == Init /\ [][Next]_vars

InitSearch ==
  /\ InitCommon
  /\ pc = [r \in Requests |-> IF r \in SearchReqs THEN "start" ELSE "off"]
  /\ source = IdleSource
  /\ batchSizeIn = NoNumber
  /\ limitIn = NoNumber
  /\ searchBody \in {b \in [SearchReqs -> Bodies] : b["s2"] \in FewBodies}

NextSearch == \E r \in SearchReqs : Search(r)

SpecSearch == InitSearch /\ [][NextSearch]_vars

\* a questions.json with a document of every kind, and one long enough for
\* the pause after the fifth processed document
ProcessSources ==
  {ArrayOf(<<NullIdDoc, NoTextDoc, Example2, OidDoc>>),
   ArrayOf([p \in 1..MaxLongDocs |-> Example1])}

InitProcess ==
  /\ InitCommon
  /\ pc = [r \in Requests |-> IF r = "s2" THEN "off" ELSE "start"]
  /\ source \in ProcessSources
  /\ batchSizeIn = Some(2)
  /\ limitIn = NoNumber
  /\ searchBody \in {b \in [SearchReqs -> FewBodies \cup {IdleBody}] : b["s2"] = IdleBody}

NextProcess == \E r \in Requests : Migrate(r) \/ Search(r)

SpecProcess == InitProcess /\ [][NextProcess]_vars

\* {id:1, question:"a  b c"}: the id of Example1, another text
SameIdDoc == Doc(Absent, Num(1), Absent, Str(<<"a", " ", " ", "b", " ", "c">>), Absent)

TwicePool == {Example1, OidDoc, SameIdDoc}
TwiceSources == {ArrayOf(d) : d \in SeqsUpTo(TwicePool, MaxDocs)} \cup ProcessSources

\* the migrate request has answered and is sent a second time with the same
\* body, to the same process and the same store
MigrateAgain(r) ==
  /\ r \in MigrateReqs
  /\ pc[r] = "done"
  /\ run = 1
  /\ run' = 2
  /\ firstStore' = store
  /\ Goto(r, "start")
  /\ response' = [response EXCEPT ![r] = NoResponse]
  /\ embedCalls' = {}
  /\ upsertCalls' = <<>>
  /\ UNCHANGED <<got, shared, inputs, store, migrateVars, queryCalls>>

InitTwice ==
  /\ InitCommon
  /\ pc = [r \in Requests |-> IF r \in MigrateReqs THEN "start" ELSE "off"]
  /\ source \in TwiceSources
  /\ batchSizeIn \in BatchSizes
  /\ limitIn \in Limits
  /\ searchBody = [r \in SearchReqs |-> IdleBody]

NextTwice == \E r \in MigrateReqs : Migrate(r) \/ MigrateAgain(r)

SpecTwice == InitTwice /\ [][NextTwice]_vars

\* one migrate request in which every awaited promise (pipeline(), the model,
\* index.upsert, the setTimeout of a delay) is eventually settled and the
\* code between two awaits runs to its end
\* {id:"1", question:"abc"}, {id:null, question:"abc"} and {question:"abc"}
ShortDoc == Doc(Absent, Str(<<"1">>), Absent, Str(<<"a", "b", "c">>), Absent)
NullIdShort == Doc(Absent, Null, Absent, Str(<<"a", "b", "c">>), Absent)
NoIdShort == Doc(Absent, Absent, Absent, Str(<<"a", "b", "c">>), Absent)

LivePool == {ShortDoc, Example2, NullIdShort}
LiveSources ==
  {ArrayOf(d) : d \in SeqsUpTo(LivePool, MaxDocs)
                       \cup SeqsOfLength({ShortDoc, Example2}, MaxLongDocs)}
    \cup {ArrayOf(<<NoIdShort, NoTextDoc>>), [k |-> "nofile", docs |-> <<>>],
          [k |-> "object", docs |-> <<>>]}

InitLive ==
  /\ InitCommon
  /\ pc = [r \in Requests |-> IF r \in MigrateReqs THEN "start" ELSE "off"]
  /\ source \in LiveSources
  /\ batchSizeIn \in {NoNumber, Some(1), Some(2)}
  /\ limitIn = NoNumber
  /\ searchBody = [r \in SearchReqs |-> IdleBody]

SpecLive == InitLive /\ [][Next]_vars /\ WF_vars(Next)

(***************************************************************************)
(* Properties.                                                             *)
(***************************************************************************)
Succeeded(r) == pc[r] = "done" /\ response[r].status = 200

\* request r took the step
Moved(r) == pc'[r] # pc[r] \/ (r \in MigrateReqs /\ i' # i)

Positions(vectors) == {vectors[k].src : k \in 1..Len(vectors)}

\* C1: whenever a migrate request returns its success response, the counters
\* of the response satisfy totalProcessed + errors + skipped = totalDocuments.
C1_CountersAddUp ==
  \A r \in MigrateReqs :
    Succeeded(r) =>
      response[r].stats.totalProcessed + response[r].stats.errors
        + response[r].stats.skipped = response[r].stats.totalDocuments

\* C2: callers of one module's initEmbedder that find the model not loaded
\* trigger one load between them (no two loads are in flight together) and
\* all receive the same instance.
C2_SingleFlight ==
  \A r1 \in Requests : \A r2 \in Requests \ {r1} :
    ModuleOf(r1) = ModuleOf(r2) =>
      /\ ~(pc[r1] = "loading" /\ pc[r2] = "loading")
      /\ got[r1] # 0 /\ got[r2] # 0 => got[r1] = got[r2]

\* C3: the embedder is one singleton for the whole process: whatever the
\* migrate and search requests do, at most one loaded instance exists and
\* every request that obtained an embedder obtained that one.
C3_ProcessWideSingleton ==
  /\ Cardinality({embedder[m] : m \in Modules} \ {0}) <= 1
  /\ \A r1 \in Requests : \A r2 \in Requests :
       got[r1] # 0 /\ got[r2] # 0 => got[r1] = got[r2]

\* the document the loop is at has an id and a text, and the text is too
\* short once cleaned
TooShortAt(r) ==
  /\ AtDoc(r)
  /\ HasId(questions[i])
  /\ Truthy(TextForEmbedding(questions[i]))
  /\ TextForEmbedding(questions[i]).k = "str"
  /\ Len(CleanText(TextForEmbedding(questions[i]).s)) < MinCleanLength

\* C4: when the embedding of a document fails (text too short, model load
\* or model run rejected), errors grows by exactly one, the document is not
\* put in the batch and is counted neither processed nor skipped, and the
\* run goes on with the next document without responding; and a document
\* whose embedding succeeds is pushed and counted as processed whatever
\* failed before it.
C4_EmbeddingFailureIsolated ==
  [][\A r \in MigrateReqs :
       LET fails == /\ Moved(r)
                    /\ \/ TooShortAt(r)
                       \/ pc[r] \in {"loading", "model"} /\ failures' > failures
           succeeds == pc[r] = "model" /\ Moved(r) /\ failures' = failures
       IN /\ fails =>
               /\ errorCount' = errorCount + 1
               /\ processedCount' = processedCount
               /\ skippedCount' = skippedCount
               /\ batch' = batch
               /\ upsertCalls' = upsertCalls
               /\ questions' = questions
               /\ i' = i + 1
               /\ pc'[r] = "loop"
               /\ response'[r] = NoResponse
          /\ succeeds =>
               /\ processedCount' = processedCount + 1
               /\ errorCount' = errorCount
               /\ Len(batch') = Len(batch) + 1
               /\ batch'[Len(batch')].src = i
     ]_vars

\* a too-short document was counted as an error and a later document is in
\* the batch
C4_Witness ==
  \E p \in 1..Len(questions) : \E q \in 1..Len(questions) :
    /\ q < p
    /\ <<"m1", q>> \in embedCalls
    /\ TooShort(TextForEmbedding(questions[q]).s)
    /\ errorCount >= 1
    /\ p \in Positions(batch)

\* C5: a document with no usable id or with no text grows skipped by exactly
\* one, is never passed to getEmbedding, is never put in a batch, and is
\* counted neither processed nor as an error.
C5_UnusableIsSkipped ==
  [][\A r \in MigrateReqs :
       /\ AtDoc(r)
       /\ Moved(r)
       /\ ~HasId(questions[i]) \/ ~Truthy(TextForEmbedding(questions[i]))
       => /\ skippedCount' = skippedCount + 1
          /\ errorCount' = errorCount
          /\ processedCount' = processedCount
          /\ batch' = batch
          /\ embedCalls' = embedCalls
     ]_vars

\* C6: a failed upsert, in the loop or the last one, ends the run with an
\* error response: it is the last upsert call of the run, and no vector of
\* a failed call is in a later call.
C6_UpsertFailureEndsRun ==
  \A k \in 1..Len(upsertCalls) :
    upsertCalls[k].result = "failed" =>
      /\ k = Len(upsertCalls)
      /\ \A r \in MigrateReqs : pc[r] = "done" /\ response[r].status = 500
      /\ \A j \in (k + 1)..Len(upsertCalls) :
           Positions(upsertCalls[j].vectors) \cap Positions(upsertCalls[k].vectors) = {}

\* the query text is missing, empty or made of whitespace only
BlankQuery(query) ==
  \/ query.k \in {"absent", "null"}
  \/ query.k = "str" /\ \A p \in 1..Len(query.s) : query.s[p] \in Whitespace

\* C7: a search request whose query is missing, empty or whitespace-only
\* ends with the 400 "Query is required" response, and makes no getEmbedding
\* call, no model load and no index.query call.
C7_BlankQueryRejected ==
  \A r \in SearchReqs :
    pc[r] \notin {"start", "off"} /\ BlankQuery(searchBody[r].query) =>
      /\ pc[r] = "done"
      /\ response[r] = [status |-> 400, error |-> "Query is required"]
      /\ queryCalls[r] = <<>>
      /\ <<r, 0>> \notin embedCalls
      /\ got[r] = 0

\* a whitespace-only query was answered with 400 while the other request
\* reached the store
C7_Witness ==
  /\ searchBody["s1"].query = Str(<<" ", "\t">>)
  /\ response["s1"].status = 400
  /\ Len(queryCalls["s2"]) = 1

FilterKeys == {"subject", "topic", "course"}
\* the filter fields of the body that are present and not empty
Requested(body) == {key \in FilterKeys : body[key].k = "str" /\ Len(body[key].s) > 0}

\* C8: the filter given to index.query has exactly the keys of the fields
\* that are present and non-empty in the body, each with the body's value,
\* and is undefined when there is no such field.
C8_FilterExact ==
  \A r \in SearchReqs : \A k \in 1..Len(queryCalls[r]) :
    LET filter == queryCalls[r][k].filter
        body == searchBody[r]
    IN IF Requested(body) = {}
         THEN filter = Undefined
         ELSE /\ filter.k = "object"
              /\ DOMAIN filter.fields = Requested(body)
              /\ \A key \in Requested(body) : filter.fields[key] = body[key]

\* a body with subject "Math", topic "" and no course was queried with
\* {subject: "Math"}, and a body with no filter with undefined
C8_Witness ==
  /\ searchBody["s1"].subject = Str(Math)
  /\ searchBody["s1"].topic = Str(<<>>)
  /\ searchBody["s1"].course = Absent
  /\ Len(queryCalls["s1"]) = 1
  /\ DOMAIN queryCalls["s1"][1].filter.fields = {"subject"}
  /\ Len(queryCalls["s2"]) = 1
  /\ queryCalls["s2"][1].filter = Undefined

LastQuery(r) == queryCalls[r][Len(queryCalls[r])]

SearchAnswered(r) == r \in SearchReqs /\ Succeeded(r)

\* C9 as stated: a successful search returns the store's matches in the
\* store's order, their number, the query text as sent, and as filters the
\* very value given to index.query.
C9_FiltersAsQueried ==
  \A r \in SearchReqs :
    SearchAnswered(r) =>
      /\ response[r].matches = LastQuery(r).matches
      /\ response[r].total = Len(LastQuery(r).matches)
      /\ response[r].searchQuery = searchBody[r].query.s
      /\ response[r].filters = LastQuery(r).filter

\* C9 amended: the same, but filters is the filter object the route built:
\* the value given to index.query when some filter was requested, and the
\* empty object {} (index.query was given undefined) when none was.
C9_FiltersAsBuilt ==
  \A r \in SearchReqs :
    SearchAnswered(r) =>
      /\ Len(queryCalls[r]) = 1
      /\ LastQuery(r).result = "ok"
      /\ response[r].matches = LastQuery(r).matches
      /\ response[r].total = Len(LastQuery(r).matches)
      /\ response[r].searchQuery = searchBody[r].query.s
      /\ response[r].filters =
           IF LastQuery(r).filter = Undefined THEN Object(EmptyObject)
           ELSE LastQuery(r).filter

\* one search answered with two matches and no filter, another with a filter
C9_Witness ==
  /\ SearchAnswered("s1")
  /\ Len(response["s1"].matches) = 2
  /\ Requested(searchBody["s1"]) = {}
  /\ response["s1"].filters = Object(EmptyObject)
  /\ SearchAnswered("s2")
  /\ Requested(searchBody["s2"]) = {"subject"}
  /\ response["s2"].filters.fields["subject"] = Str(Math)

ExampleSource == ArrayOf(<<Example1, Example2>>)

\* C10: with the two documents {id:"1", question:"What is 2+2?"} and
\* {id:"2", question:"x"}, batchSize 10 and no rejected promise, the run
\* answers processed 1, skipped 0, errors 1 after exactly one upsert call
\* of one vector, the one of id "1"; and any run that ended with fewer
\* processed documents than batchSize, and at least one, made exactly one
\* upsert call, after the loop, with all the processed documents.
C10_OneUpsertBelowBatchSize ==
  \A r \in MigrateReqs :
    /\ /\ source = ExampleSource
       /\ batchSizeIn = Some(10)
       /\ failures = 0
       /\ pc[r] = "done"
       => /\ response[r].status = 200
          /\ response[r].stats.totalDocuments = 2
          /\ response[r].stats.totalProcessed = 1
          /\ response[r].stats.skipped = 0
          /\ response[r].stats.errors = 1
          /\ Len(upsertCalls) = 1
          /\ Len(upsertCalls[1].vectors) = 1
          /\ upsertCalls[1].vectors[1].id = <<"1">>
          /\ upsertCalls[1].vectors[1].src = 1
    /\ pc[r] = "done" /\ processedCount > 0 /\ processedCount < batchSize
       => /\ Len(upsertCalls) = 1
          /\ upsertCalls[1].at = "final"
          /\ Len(upsertCalls[1].vectors) = processedCount
          /\ upsertCalls[1].vectors = batch

\* the example run has answered
C10_Witness ==
  /\ source = ExampleSource
  /\ batchSizeIn = Some(10)
  /\ failures = 0
  /\ Succeeded("m1")
  /\ Len(upsertCalls) = 1
  /\ upsertCalls[1].result = "ok"

BothRunsOver(r) == run = 2 /\ pc[r] = "done"

\* C11: when the migrate request is sent twice with the same body and no
\* promise is rejected in either run, the store after the second run is
\* the store after the first: the same ids, each with the same values and
\* metadata.
C11_SecondRunChangesNothing ==
  \A r \in MigrateReqs :
    BothRunsOver(r) /\ failures = 0 =>
      /\ Succeeded(r)
      /\ store = firstStore

\* both runs are over, two documents of the file have the same id, and the
\* store holds two ids
C11_Witness ==
  /\ BothRunsOver("m1")
  /\ failures = 0
  /\ Cardinality(DOMAIN store) = 2
  /\ \E p \in 1..Len(questions) : \E q \in 1..Len(questions) :
       /\ p < q
       /\ {p, q} \subseteq UNION {Positions(upsertCalls[k].vectors) : k \in 1..Len(upsertCalls)}
       /\ DocId(questions[p]) = DocId(questions[q])
       /\ questions[p] # questions[q]

\* the positions of the documents for which request r called getEmbedding
Embedded(r) == {c[2] : c \in {e \in embedCalls : e[1] = r}}

\* C12: in a migrate run the documents are embedded in input order, the
\* vectors of each upsert call and the calls themselves follow input order
\* (every vector of an earlier call comes from a document before every
\* document of a later call), and an upsert call is pending only while the
\* run waits for it, so that no document is embedded and no other upsert is
\* started before it completes.
C12_InputOrderNoOverlap ==
  \A r \in MigrateReqs :
    /\ pc[r] \notin {"start", "off"} => \A p \in Embedded(r) : p <= i
    /\ \A k \in 1..Len(upsertCalls) :
         /\ \A a \in 1..Len(upsertCalls[k].vectors) : \A b \in 1..Len(upsertCalls[k].vectors) :
              a < b => upsertCalls[k].vectors[a].src < upsertCalls[k].vectors[b].src
         /\ \A j \in 1..(k - 1) :
              \A p \in Positions(upsertCalls[j].vectors) : \A q \in Positions(upsertCalls[k].vectors) :
                p < q
         /\ upsertCalls[k].result = "pending" =>
              /\ k = Len(upsertCalls)
              /\ pc[r] \in {"upsert", "final"}

\* the first min(m, number of records) records of the file
FirstRecords(m) ==
  SubSeq(source.docs, 1, IF m < Len(source.docs) THEN m ELSE Len(source.docs))

\* the records the request is to consider: all of them without a limit, the
\* first min(limit, number of records) with one
Considered == IF limitIn = NoNumber THEN source.docs ELSE FirstRecords(ValueOf(limitIn))

\* C13: once a migrate request has read an array of records, the records it
\* goes through are the first min(limit, number of records) in source order
\* when the body has a limit (0 included), all of them when it has none, and
\* the totalDocuments of a success response is their number.
C13_LimitTakesFirst ==
  \A r \in MigrateReqs :
    pc[r] \notin {"start", "off"} /\ source.k = "array" =>
      /\ questions = Considered
      /\ Succeeded(r) => response[r].stats.totalDocuments = Len(Considered)

\* the positions of the documents whose vector was pushed to the batch
Pushed == Positions(batch) \cup UNION {Positions(upsertCalls[k].vectors) : k \in 1..Len(upsertCalls)}

\* C14: in a migrate run, the step that ends an upsert made inside the loop
\* leads to the one-second delay with the batch emptied; the loop leaves a
\* document from the 200 ms pause exactly when that document was processed
\* and the processed count is then a multiple of 5, flushed or not; and the
\* pause is entered only for such a document, so never for a skipped or
\* failed one and once per document.
C14_DualPacing ==
  [][\A r \in MigrateReqs :
       /\ pc[r] = "upsert" /\ pc'[r] # "upsert" =>
            /\ pc'[r] = "delay"
            /\ batch' = <<>>
            /\ i' = i
       /\ pc[r] = "delay" /\ pc'[r] # "delay" => batch = <<>> /\ embedCalls' = embedCalls
       /\ pc[r] \notin {"start", "off"} /\ i' = i + 1 =>
            (pc[r] = "pace" <=> (i \in Pushed /\ processedCount % PaceEvery = 0))
       /\ pc'[r] = "pace" /\ pc[r] # "pace" =>
            /\ pc[r] \in {"model", "delay"}
            /\ i' = i
            /\ i \in Positions(batch') \cup Pushed
            /\ processedCount' % PaceEvery = 0
     ]_vars

\* C15: in a migrate run, whatever the outcomes of the embedding and upsert
\* calls, no document has its vector in two upsert calls, and every document
\* counted as processed is in the batch or in an upsert call, so that only
\* the documents of the batch not yet submitted can be lost.
C15_AtMostOnce ==
  \A r \in MigrateReqs :
    pc[r] \notin {"start", "off"} =>
      /\ \A j \in 1..Len(upsertCalls) : \A k \in 1..Len(upsertCalls) :
           j # k =>
             \A a \in 1..Len(upsertCalls[j].vectors) : \A b \in 1..Len(upsertCalls[k].vectors) :
               upsertCalls[j].vectors[a].src # upsertCalls[k].vectors[b].src
      /\ source.k = "array" => Cardinality(Pushed) = processedCount

\* C16: in a migrate run with batchSize >= 1, whatever the outcomes of the
\* earlier embedding and upsert calls, every upsert call carries at least one
\* and at most batchSize vectors, a call made inside the loop carries exactly
\* batchSize, and the batch never holds more than batchSize vectors.
C16_BatchSizeBound ==
  \A r \in MigrateReqs :
    pc[r] \notin {"start", "off"} /\ source.k = "array" /\ batchSize >= 1 =>
      /\ Len(batch) <= batchSize
      /\ \A k \in 1..Len(upsertCalls) :
           /\ Len(upsertCalls[k].vectors) \in 1..batchSize
           /\ upsertCalls[k].at = "loop" => Len(upsertCalls[k].vectors) = batchSize

\* the documents whose vector is in an upsert call that resolved
Upserted ==
  UNION {Positions(upsertCalls[k].vectors) :
           k \in {n \in 1..Len(upsertCalls) : upsertCalls[n].result = "ok"}}

\* the upsert calls made after the loop
FinalCalls == {k \in 1..Len(upsertCalls) : upsertCalls[k].at = "final"}

\* C17: when a migrate request returns its success response, every document
\* whose vector was pushed is in an upsert call that resolved and its id is
\* in the store, the number of documents so upserted is totalProcessed, and
\* finalBatchSize is the number of vectors of the upsert made after the loop,
\* 0 when there was none.
C17_NoProcessedLeftBehind ==
  \A r \in MigrateReqs :
    Succeeded(r) =>
      /\ Pushed \subseteq Upserted
      /\ \A p \in Pushed : DocId(questions[p]) \in DOMAIN store
      /\ Cardinality(Upserted) = response[r].stats.totalProcessed
      /\ Cardinality(FinalCalls) <= 1
      /\ \A k \in FinalCalls :
           /\ k = Len(upsertCalls)
           /\ response[r].stats.finalBatchSize = Len(upsertCalls[k].vectors)
      /\ FinalCalls = {} => response[r].stats.finalBatchSize = 0

\* a success response after an upsert of the loop was rejected: the vectors
\* it carried went through with a later call, and the last call is the one
\* made after the loop
C17_Witness ==
  /\ Succeeded("m1")
  /\ \E k \in 1..Len(upsertCalls) : upsertCalls[k].result = "failed"
  /\ FinalCalls # {}
  /\ response["m1"].stats.totalProcessed >= 2

\* C18: when every awaited call and delay eventually settles, a migrate
\* request eventually ends and stays ended with its one response, a success
\* with the stats or an error; a response once given never changes; and the
\* loop only moves forward, one document at a time, calling getEmbedding for
\* the current document only and at most once.
C18_Terminates ==
  /\ \A r \in MigrateReqs :
       <>[](/\ pc[r] = "done"
            /\ response[r] # NoResponse
            /\ response[r].status \in {200, 500}
            /\ response[r].status = 200 => response[r].stats = Stats)
  /\ [][\A r \in MigrateReqs :
          /\ response[r] # NoResponse => response'[r] = response[r] /\ pc'[r] = pc[r]
          /\ response'[r] # NoResponse => pc'[r] = "done"
          /\ pc[r] # "start" => i' \in {i, i + 1}
          /\ embedCalls' # embedCalls =>
               /\ <<r, i>> \notin embedCalls
               /\ embedCalls' = embedCalls \cup {<<r, i>>}
               /\ i \in 1..Len(questions)
     ]_vars

\* the run went through five documents, one of them more than once rejected
\* by the store, and gave its response
C18_Witness ==
  /\ pc["m1"] = "done"
  /\ response["m1"] # NoResponse
  /\ Len(questions) = MaxLongDocs
  /\ Cardinality(Embedded("m1")) = MaxLongDocs
  /\ failures = MaxFailures

====
